---- MODULE Spec2Model ----
(***************************************************************************)
(* Model of terraform-provider-gotrue: the adminclient HTTP/JSON client    *)
(* and the gotrue_saml_identity_provider resource handlers                 *)
(* (create / read / update / delete), plus the field validators.           *)
(***************************************************************************)
EXTENDS Integers, Sequences, FiniteSets, TLC

VARIABLES
    rec,    \* the resource record d: identifier slot and stored fields
    cfg,    \* the desired values the host planned for the next create/update
    last,   \* what the last handler did: request issued, error returned
    cl,     \* the last direct call of an adminclient operation and its result
    dv,     \* domain validator: value under validation and its diagnostics
    uv,     \* url validator: value under validation, diagnostics, crash flag
    hd      \* header sets: the caller's, the client's, one per request in flight

vars == <<rec, cfg, last, cl, dv, uv, hd>>

----------------------------------------------------------------------------
(* Bounds of the model *)

\* number of distinct domain names the host and the remote service draw from
NumDomains == 1
\* longest domain string handed to the domain validator
MaxLen == 4
\* client operations that can be in flight at the same time
NumProcs == 2
\* most values the caller or the transport puts under one header name
MaxValues == 2

----------------------------------------------------------------------------
(* Values *)

StatusOK == 200
StatusCreated == 201

DomainNames == <<"a.com", "b.com", "c.com", "d.com">>
DomainUniverse == {DomainNames[i] : i \in 1..NumDomains}
\* response domain lists: any order, duplicates allowed
DomainLists == UNION {[1..n -> DomainUniverse] : n \in 0..2}

MetadataURLs == {"", "https://idp.example/saml"}
MetadataXMLs == {"", "<EntityDescriptor/>"}

\* adminclient.AttributeMapping: Keys is a map; a key is a record here
ZeroAM == [keys |-> {}]
MailAM == [keys |-> {[key |-> "user_name", name |-> "mail"]}]
AMValues == {ZeroAM, MailAM}

\* texts of the attribute_mapping field
MailAMText == "{\"keys\":{\"user_name\":{\"name\":\"mail\"}}}"
EmptyAMText == "{}"
BadAMText == "{\"keys\":"
AMTexts == {"", EmptyAMText, MailAMText, BadAMText}

\* json.Unmarshal([]byte(text), &template.AttributeMapping)
ParseAM(text) ==
    CASE text = MailAMText  -> [ok |-> TRUE, val |-> MailAM]
      [] text = EmptyAMText -> [ok |-> TRUE, val |-> ZeroAM]
      [] OTHER              -> [ok |-> FALSE, val |-> ZeroAM]

\* string(json.Marshal(provider.SAML.AttributeMapping)); Keys is omitempty
MarshalAM(am) ==
    IF am.keys = {} THEN EmptyAMText ELSE MailAMText

\* time.Time values of a response: an instant and a zone offset in hours
ZeroTime == [unix |-> 0, off |-> 0]
\* (created_at, updated_at) pairs the remote service answers with
TimePairs ==
    {<<[unix |-> 1, off |-> 0], [unix |-> 1, off |-> 1]>>,
     <<[unix |-> 1, off |-> 1], [unix |-> 2, off |-> 0]>>}

\* t.UTC().Format(time.RFC3339): the zone is normalised away
FormatUTC(t) ==
    CASE t.unix = 0 -> "0001-01-01T00:00:00Z"
      [] t.unix = 1 -> "2022-07-18T10:00:00Z"
      [] OTHER      -> "2022-07-18T11:00:00Z"

----------------------------------------------------------------------------
(* adminclient: requests, responses, errors *)

NilDomains == [present |-> FALSE, list |-> {}]

\* adminclient.IdentityProviderRequest (the fields the handlers set)
ZeroTemplate ==
    [type |-> "", domains |-> NilDomains, metadata_xml |-> "",
     metadata_url |-> "", attribute_mapping |-> ZeroAM]

\* adminclient.IdentityProviderResponse
ZeroProvider ==
    [id |-> "", domains |-> <<>>, metadata_xml |-> "", metadata_url |-> "",
     attribute_mapping |-> ZeroAM, created_at |-> ZeroTime, updated_at |-> ZeroTime]

RemoteIDs == {"abc", "xyz"}

ProviderValues ==
    {[id |-> i, domains |-> ds, metadata_xml |-> m[2], metadata_url |-> m[1],
      attribute_mapping |-> am, created_at |-> t[1], updated_at |-> t[2]] :
        i \in RemoteIDs, ds \in DomainLists,
        m \in MetadataURLs \X MetadataXMLs, am \in AMValues,
        t \in TimePairs}

\* A response body: its raw text and what a JSON decoder finds in it.
\*   json: "invalid" (not JSON), "object", "array" or "null"
\*   hasCode / code: the "code" member of an object, when it has one
\*   msgKind / msg: the "msg" member: "absent", a "string" or a "number"
\*   provider: the identity provider an object decodes to
Body(text, json, hasCode, code, msgKind, msg, provider) ==
    [text |-> text, json |-> json, hasCode |-> hasCode, code |-> code,
     msgKind |-> msgKind, msg |-> msg, provider |-> provider]

ErrorBodies ==
    { Body("", "invalid", FALSE, 0, "absent", "", ZeroProvider),
      Body("not found", "invalid", FALSE, 0, "absent", "", ZeroProvider),
      Body("[1]", "array", FALSE, 0, "absent", "", ZeroProvider),
      Body("null", "null", FALSE, 0, "absent", "", ZeroProvider),
      Body("{}", "object", FALSE, 0, "absent", "", ZeroProvider),
      Body("{\"code\":400,\"msg\":\"invalid metadata\"}", "object", TRUE, 400, "string",
           "invalid metadata", ZeroProvider),
      Body("{\"code\":404,\"msg\":\"not found\"}", "object", TRUE, 404, "string",
           "not found", ZeroProvider),
      Body("{\"msg\":\"boom\"}", "object", FALSE, 0, "string", "boom", ZeroProvider),
      Body("{\"code\":400,\"msg\":7}", "object", TRUE, 400, "number", "", ZeroProvider) }

ProviderBody(p) == Body("<identity provider json>", "object", FALSE, 0, "absent", "", p)

Statuses == {StatusOK, StatusCreated, 400, 404, 500}

\* what HTTPClient.Do returns: a transport error, or a response whose body
\* may fail to read
TransportFailure ==
    [transport |-> TRUE, status |-> 0, readErr |-> FALSE,
     body |-> Body("", "invalid", FALSE, 0, "absent", "", ZeroProvider)]
Response(status, body, readErr) ==
    [transport |-> FALSE, status |-> status, readErr |-> readErr, body |-> body]

NoOp == [text |-> "", id |-> ""]
NoErr == [kind |-> "none", op |-> NoOp, expected |-> 0, code |-> 0, message |-> ""]
PlainErr(kind) == [kind |-> kind, op |-> NoOp, expected |-> 0, code |-> 0, message |-> ""]

\* json.Unmarshal(body, &errorObject): Op and Expected are tagged json:"-";
\* a member of the wrong type is reported after the other members are stored
UnmarshalError(body) ==
    [err     |-> body.json \in {"invalid", "array"} \/ body.msgKind = "number",
     hasCode |-> body.json = "object" /\ body.hasCode,
     code    |-> body.code,
     hasMsg  |-> body.json = "object" /\ body.msgKind = "string",
     msg     |-> body.msg]

parseError(res, expected, op) ==
    IF res.readErr THEN PlainErr("read")
    ELSE LET dec == UnmarshalError(res.body) IN
         [kind     |-> "api",
          op       |-> op,
          expected |-> expected,
          code     |-> IF dec.hasCode THEN dec.code ELSE res.status,
          message  |-> IF dec.err THEN res.body.text
                       ELSE IF dec.hasMsg THEN dec.msg ELSE ""]

\* json.NewDecoder(res.Body).Decode(provider): members the struct does not
\* name ("code", "msg") are skipped
DecodeProvider(body) ==
    [err |-> body.json \in {"invalid", "array"},
     provider |-> IF body.json = "object" THEN body.provider ELSE ZeroProvider]

\* the common tail of Get / Create / Update: Do, status check, decode
Exchange(res, expected, op) ==
    IF res.transport THEN [err |-> PlainErr("transport"), provider |-> ZeroProvider]
    ELSE IF res.status # expected
         THEN [err |-> parseError(res, expected, op), provider |-> ZeroProvider]
    ELSE IF res.readErr \/ DecodeProvider(res.body).err
         THEN [err |-> PlainErr("decode"), provider |-> ZeroProvider]
    ELSE [err |-> NoErr, provider |-> DecodeProvider(res.body).provider]

GetIdentityProvider(id, res) ==
    Exchange(res, StatusOK, [text |-> "fetching identity provider with id", id |-> id])

CreateIdentityProvider(template, res) ==
    Exchange(res, StatusCreated, [text |-> "creating new identity provider", id |-> ""])

UpdateIdentityProvider(id, template, res) ==
    Exchange(res, StatusOK, [text |-> "updating identity provider with ID", id |-> id])

DeleteIdentityProvider(id, res) ==
    IF res.transport THEN PlainErr("transport")
    ELSE IF res.status # StatusOK
         THEN parseError(res, StatusOK,
                         [text |-> "deleting identity provider with ID", id |-> id])
    ELSE NoErr

----------------------------------------------------------------------------
(* The resource record and the handlers of gotrue_saml_identity_provider *)

EmptyRecord ==
    [id |-> "", metadata_url |-> "", metadata_xml |-> "", domains |-> {},
     attribute_mapping |-> "", created_at |-> "", updated_at |-> ""]

\* no plan pending
NoCfg ==
    [planned |-> FALSE, metadata_url |-> "", metadata_xml |-> "", domains |-> {},
     attribute_mapping |-> ""]

\* the desired values a plan can carry (the four configurable fields)
Configs ==
    {[planned |-> TRUE, metadata_url |-> u, metadata_xml |-> x, domains |-> ds,
      attribute_mapping |-> am] :
        u \in MetadataURLs, x \in MetadataXMLs, ds \in SUBSET DomainUniverse,
        am \in AMTexts}

MutableFields == {"metadata_url", "metadata_xml", "domains", "attribute_mapping"}

\* d.HasChange(key): the stored value against the planned one
HasChange(d, c, key) == d[key] # c[key]

\* the record as the handler reads it with d.Get during create / update:
\* the planned values over the stored ones
Planned(d, c) ==
    [d EXCEPT !.metadata_url = c.metadata_url, !.metadata_xml = c.metadata_xml,
              !.domains = c.domains, !.attribute_mapping = c.attribute_mapping]

\* sort.Strings + schema.NewSet + Add: the list as a set of strings
DomainsSet(list) == {list[i] : i \in DOMAIN list}

\* Synchronization: the response written into the record
resourceIdentityProviderSet(provider, d) ==
    [d EXCEPT
        !.id = provider.id,
        !.metadata_url =
            IF provider.metadata_url # "" THEN provider.metadata_url ELSE @,
        !.metadata_xml =
            IF provider.metadata_url = "" /\ provider.metadata_xml # ""
            THEN provider.metadata_xml ELSE @,
        !.created_at = FormatUTC(provider.created_at),
        !.updated_at = FormatUTC(provider.updated_at),
        !.domains = DomainsSet(provider.domains),
        !.attribute_mapping = MarshalAM(provider.attribute_mapping)]

\* what a handler run leaves behind for observation
\*   issued: requests handed to the transport; status: the answer's status
\*   (0: none came back); changed: the fields HasChange reported
Outcome(op, issued, method, id, template, changed, status, err) ==
    [op |-> op, issued |-> issued, method |-> method, id |-> id,
     template |-> template, changed |-> changed, status |-> status, err |-> err]

NoOutcome == Outcome("none", 0, "", "", ZeroTemplate, {}, 0, NoErr)

\* template.Domains = append(template.Domains, ...) over the elements of a set
AppendDomains(domains, set) ==
    IF set = {} THEN domains ELSE [present |-> TRUE, list |-> domains.list \cup set]

\* variant: the desired domain list goes into every update request
UpdateTemplateAllDomains(d, c) ==
    [type |-> "",
     metadata_url |->
        IF HasChange(d, c, "metadata_url") THEN c.metadata_url ELSE "",
     metadata_xml |->
        IF ~HasChange(d, c, "metadata_url") /\ HasChange(d, c, "metadata_xml")
        THEN c.metadata_xml ELSE "",
     domains |-> [present |-> TRUE, list |-> c.domains],
     attribute_mapping |->
        IF HasChange(d, c, "attribute_mapping") /\ c.attribute_mapping # ""
        THEN ParseAM(c.attribute_mapping).val ELSE ZeroAM]

\* the template resourceIdentityProviderUpdate builds
UpdateTemplate(d, c) ==
    [type |-> "",
     metadata_url |->
        IF HasChange(d, c, "metadata_url") THEN c.metadata_url ELSE "",
     metadata_xml |->
        IF ~HasChange(d, c, "metadata_url") /\ HasChange(d, c, "metadata_xml")
        THEN c.metadata_xml ELSE "",
     domains |->
        IF HasChange(d, c, "domains") THEN AppendDomains(NilDomains, c.domains)
        ELSE NilDomains,
     attribute_mapping |->
        IF HasChange(d, c, "attribute_mapping") /\ c.attribute_mapping # ""
        THEN ParseAM(c.attribute_mapping).val ELSE ZeroAM]

\* the early return of update on a mapping that does not parse
UpdateParseError(d, c) ==
    /\ HasChange(d, c, "attribute_mapping")
    /\ c.attribute_mapping # ""
    /\ ~ParseAM(c.attribute_mapping).ok

resourceIdentityProviderUpdate(d, c, res) ==
    LET template == UpdateTemplate(d, c)
        changed == {k \in MutableFields : HasChange(d, c, k)}
        r == UpdateIdentityProvider(d.id, template, res)
    IN  IF UpdateParseError(d, c)
        THEN [rec |-> d,
              last |-> Outcome("update", 0, "", "", ZeroTemplate, changed, 0,
                               PlainErr("parse"))]
        ELSE IF r.err # NoErr
        THEN [rec |-> d,
              last |-> Outcome("update", 1, "PUT", d.id, template, changed,
                               res.status, r.err)]
        ELSE [rec |-> resourceIdentityProviderSet(r.provider, Planned(d, c)),
              last |-> Outcome("update", 1, "PUT", d.id, template, changed,
                               res.status, NoErr)]

\* the template resourceIdentityProviderCreate builds
CreateTemplate(c) ==
    [type |-> "saml",
     metadata_url |-> c.metadata_url,
     metadata_xml |-> IF c.metadata_url = "" THEN c.metadata_xml ELSE "",
     domains |->
        IF c.domains # {} THEN [present |-> TRUE, list |-> c.domains]
        ELSE NilDomains,
     attribute_mapping |->
        IF c.attribute_mapping # "" THEN ParseAM(c.attribute_mapping).val
        ELSE ZeroAM]

\* variant: the result of json.Unmarshal is not looked at
CreateParseErrorIgnored(c) == FALSE

\* the early return of create on a mapping that does not parse
CreateParseError(c) ==
    c.attribute_mapping # "" /\ ~ParseAM(c.attribute_mapping).ok

resourceIdentityProviderCreate(d, c, res) ==
    LET template == CreateTemplate(c)
        r == CreateIdentityProvider(template, res)
    IN  IF CreateParseError(c)
        THEN [rec |-> d,
              last |-> Outcome("create", 0, "", "", ZeroTemplate, {}, 0,
                               PlainErr("parse"))]
        ELSE IF r.err # NoErr
        THEN [rec |-> d,
              last |-> Outcome("create", 1, "POST", "", template, {}, res.status,
                               r.err)]
        ELSE [rec |-> resourceIdentityProviderSet(r.provider, Planned(d, c)),
              last |-> Outcome("create", 1, "POST", "", template, {}, res.status,
                               NoErr)]

\* variant: a 404 answer drops the record instead of failing the read
resourceIdentityProviderReadDropsOn404(d, res) ==
    LET r == GetIdentityProvider(d.id, res)
    IN  IF r.err # NoErr /\ r.err.kind = "api" /\ res.status = 404
        THEN [rec |-> [d EXCEPT !.id = ""],
              last |-> Outcome("read", 1, "GET", d.id, ZeroTemplate, {},
                               res.status, NoErr)]
        ELSE IF r.err # NoErr
        THEN [rec |-> d,
              last |-> Outcome("read", 1, "GET", d.id, ZeroTemplate, {},
                               res.status, r.err)]
        ELSE [rec |-> resourceIdentityProviderSet(r.provider, d),
              last |-> Outcome("read", 1, "GET", d.id, ZeroTemplate, {},
                               res.status, NoErr)]

resourceIdentityProviderRead(d, res) ==
    LET r == GetIdentityProvider(d.id, res)
    IN  IF r.err # NoErr
        THEN [rec |-> d,
              last |-> Outcome("read", 1, "GET", d.id, ZeroTemplate, {},
                               res.status, r.err)]
        ELSE [rec |-> resourceIdentityProviderSet(r.provider, d),
              last |-> Outcome("read", 1, "GET", d.id, ZeroTemplate, {},
                               res.status, NoErr)]

\* variant: the identifier is cleared whatever the client returned
resourceIdentityProviderDeleteAlwaysClears(d, res) ==
    LET err == DeleteIdentityProvider(d.id, res)
    IN  [rec |-> [d EXCEPT !.id = ""],
         last |-> Outcome("delete", 1, "DELETE", d.id, ZeroTemplate, {},
                          res.status, err)]

resourceIdentityProviderDelete(d, res) ==
    LET err == DeleteIdentityProvider(d.id, res)
    IN  IF err # NoErr
        THEN [rec |-> d,
              last |-> Outcome("delete", 1, "DELETE", d.id, ZeroTemplate, {},
                               res.status, err)]
        ELSE [rec |-> [d EXCEPT !.id = ""],
              last |-> Outcome("delete", 1, "DELETE", d.id, ZeroTemplate, {},
                               res.status, NoErr)]

----------------------------------------------------------------------------
(* The host drives the handlers; the remote service answers as it likes *)

\* the answers the remote service gives a handler that expects `expected`:
\* any identity provider under the expected status, and error answers
HandlerResponses(expected) ==
    {TransportFailure} \cup
    {Response(expected, ProviderBody(p), FALSE) : p \in ProviderValues} \cup
    {Response(s, b, FALSE) :
        s \in Statuses,
        b \in {b \in ErrorBodies :
                 b.text \in {"not found", "{}", "{\"code\":404,\"msg\":\"not found\"}"}}} \cup
    {Response(s, ProviderBody(ZeroProvider), TRUE) : s \in {expected, 404}}

\* http.Header: canonical name -> list of values (empty: name absent)
HeaderNames == {"Authorization", "Content-Type", "User-Agent"}
EmptyHeader == [n \in HeaderNames |-> <<>>]
\* http.Header.Add
HeaderAdd(h, name, value) == [h EXCEPT ![name] = Append(@, value)]

\* Header maps are reference values: cell 1 is the caller's map, cell 2 the
\* client's c.Headers, cell 2 + p the req.Header of the operation process p runs
CallerRef == 1
ClientCell == 2
RequestCell(p) == 2 + p
Procs == 1..NumProcs
Cells == 1..(2 + NumProcs)

\* variant: the map is handed on as it is, without Clone()
HeaderShared(src, fresh) == src

\* http.Header.Clone(): the cell the result lives in - a fresh one, which
\* receives a copy of the source's entries
HeaderClone(src, fresh) == fresh

\* the header sets before the client is constructed
HdIdle ==
    [heap |-> [c \in Cells |-> EmptyHeader],
     built |-> FALSE,
     headers |-> 0,
     atConstruction |-> EmptyHeader,
     pc |-> [p \in Procs |-> "idle"],
     op |-> [p \in Procs |-> "none"],
     reqHeader |-> [p \in Procs |-> 0]]

\* nothing called, nothing validated
Idle ==
    [op |-> "none", id |-> "", template |-> ZeroTemplate, res |-> TransportFailure,
     err |-> NoErr, provider |-> ZeroProvider]
DvIdle == [value |-> <<>>, diags |-> <<>>, done |-> FALSE]
UvIdle == [raw |-> <<>>, diags |-> <<>>, crashed |-> FALSE, done |-> FALSE]

\* the host plans a create (no identifier yet) or an update
Plan(c) ==
    /\ ~cfg.planned
    /\ last = NoOutcome
    /\ cfg' = c
    /\ UNCHANGED <<rec, last, cl, dv, uv, hd>>

Create(res) ==
    /\ cfg.planned
    /\ rec.id = ""
    /\ LET out == resourceIdentityProviderCreate(rec, cfg, res)
       IN  rec' = out.rec /\ last' = out.last
    /\ cfg' = NoCfg
    /\ UNCHANGED <<cl, dv, uv, hd>>

Update(res) ==
    /\ cfg.planned
    /\ rec.id # ""
    /\ LET out == resourceIdentityProviderUpdate(rec, cfg, res)
       IN  rec' = out.rec /\ last' = out.last
    /\ cfg' = NoCfg
    /\ UNCHANGED <<cl, dv, uv, hd>>

Read(res) ==
    /\ ~cfg.planned
    /\ last = NoOutcome
    /\ rec.id # ""
    /\ LET out == resourceIdentityProviderRead(rec, res)
       IN  rec' = out.rec /\ last' = out.last
    /\ UNCHANGED <<cfg, cl, dv, uv, hd>>

Delete(res) ==
    /\ ~cfg.planned
    /\ last = NoOutcome
    /\ rec.id # ""
    /\ LET out == resourceIdentityProviderDelete(rec, res)
       IN  rec' = out.rec /\ last' = out.last
    /\ UNCHANGED <<cfg, cl, dv, uv, hd>>

\* the handler has returned: the host takes its diagnostics
Return ==
    /\ last # NoOutcome
    /\ last' = NoOutcome
    /\ UNCHANGED <<rec, cfg, cl, dv, uv, hd>>

Init ==
    /\ rec = EmptyRecord
    /\ cfg = NoCfg
    /\ last = NoOutcome
    /\ cl = Idle
    /\ dv = DvIdle
    /\ uv = UvIdle
    /\ hd = HdIdle

Next ==
    \/ \E c \in Configs : Plan(c)
    \/ \E res \in HandlerResponses(StatusCreated) : Create(res)
    \/ \E res \in HandlerResponses(StatusOK) : Update(res)
    \/ \E res \in HandlerResponses(StatusOK) : Read(res)
    \/ \E res \in HandlerResponses(StatusOK) : Delete(res)
    \/ Return

Spec == Init /\ [][Next]_vars

----------------------------------------------------------------------------
(* Properties of the handlers.  In a step, rec and cfg are the stored and  *)
(* the desired values the handler started from; last' is what it did.      *)

UpdateIssued == last'.op = "update" /\ last'.issued = 1

\* C1: an update request carries no field whose desired value equals the
\* stored one: with the domain set unchanged the request's domain list is
\* nil (not an empty list), and an unchanged metadata URL, metadata XML or
\* attribute mapping is left at its zero value.
C1_UpdateSendsOnlyChangedFields ==
    [][UpdateIssued =>
        /\ (cfg.domains = rec.domains => last'.template.domains = NilDomains)
        /\ (cfg.metadata_url = rec.metadata_url => last'.template.metadata_url = "")
        /\ (cfg.metadata_xml = rec.metadata_xml => last'.template.metadata_xml = "")
        /\ (cfg.attribute_mapping = rec.attribute_mapping
                => last'.template.attribute_mapping = ZeroAM)]_vars

\* an update the service rejected (so rec still holds the stored values):
\* the domain set {"a.com"} was unchanged and left out, the changed metadata
\* URL was sent
C1_Witness ==
    /\ last.op = "update" /\ last.issued = 1 /\ last.err # NoErr
    /\ rec.domains = {"a.com"}
    /\ "domains" \notin last.changed
    /\ last.template.domains = NilDomains
    /\ "metadata_url" \in last.changed
    /\ last.template.metadata_url # ""

\* C2: in an update request the domain list is present and equal to the
\* desired set whenever the set changed - an explicit empty list when it was
\* cleared - and absent only when the set did not change.
C2_ChangedDomainsAlwaysPresent ==
    [][UpdateIssued =>
        IF cfg.domains # rec.domains
        THEN last'.template.domains = [present |-> TRUE, list |-> cfg.domains]
        ELSE last'.template.domains = NilDomains]_vars

\* C3: the identifier is assigned only by a successful create and no read or
\* update changes it afterwards, whatever the remote service answers.
C3_IdentifierImmutableAfterCreate ==
    [][/\ (rec.id = "" /\ rec'.id # "" => last'.op = "create" /\ last'.err = NoErr)
       /\ (rec.id # "" /\ last'.op \in {"read", "update"} => rec'.id = rec.id)]_vars

\* C4: delete issues exactly one DELETE for the stored identifier; the
\* identifier is empty afterwards if the answer was HTTP 200, and unchanged
\* after a transport error or any other status.
C4_DeleteClearsIdIffRemoteDeleteSucceeded ==
    [][last'.op = "delete" =>
        /\ last'.issued = 1 /\ last'.method = "DELETE" /\ last'.id = rec.id
        /\ (last'.status = StatusOK => last'.err = NoErr /\ rec'.id = "")
        /\ (last'.status # StatusOK => last'.err # NoErr /\ rec'.id = rec.id)]_vars

\* a delete answered 404: the identifier is still there
C4_Witness ==
    /\ last.op = "delete" /\ last.issued = 1 /\ last.status = 404
    /\ last.err.kind = "api"
    /\ rec.id # "" /\ rec.id = last.id

\* C6: when the client call of create, read or update fails, the handler
\* returns the client's error and the record is exactly as before; a read
\* answered 404 fails and keeps the record.
C6_FailedCallWritesNothing ==
    [][/\ (/\ last'.op \in {"create", "read", "update"}
           /\ last'.issued = 1
           /\ last'.err # NoErr)
            => rec' = rec /\ last'.err.kind \in {"transport", "decode", "api", "read"}
       /\ (last'.op = "read" /\ last'.status = 404)
            => last'.err # NoErr /\ rec' = rec]_vars

\* a read answered 404 on a record that has an identifier and fields
C6_Witness ==
    /\ last.op = "read" /\ last.status = 404 /\ last.err.kind = "api"
    /\ rec.id # "" /\ rec.domains # {} /\ rec.metadata_url # ""

\* C7: whenever the metadata XML changed, the update request carries the new
\* metadata XML, whether or not the metadata URL changed too.
C7_ChangedXMLAlwaysSent ==
    [][(UpdateIssued /\ cfg.metadata_xml # rec.metadata_xml)
        => last'.template.metadata_xml = cfg.metadata_xml]_vars

\* C8: create with an attribute mapping that is not JSON returns an error,
\* issues no request and leaves the identifier unassigned.
C8_CreateRejectsMalformedMapping ==
    [][(last'.op = "create" /\ cfg.attribute_mapping = BadAMText)
        => /\ last'.issued = 0
           /\ last'.err # NoErr
           /\ rec'.id = "" /\ rec' = rec]_vars

\* a create that stopped at the malformed mapping
C8_Witness ==
    /\ last.op = "create" /\ last.err.kind = "parse"
    /\ last.issued = 0 /\ rec.id = ""

----------------------------------------------------------------------------
(* The adminclient operations called directly, against any answer *)

ClientResponses ==
    {TransportFailure} \cup
    {Response(st, b, r) :
        st \in Statuses,
        b \in ErrorBodies \cup
              {ProviderBody(pv) : pv \in {q \in ProviderValues : q.domains = <<>>}},
        r \in BOOLEAN}

ClientTemplates == {CreateTemplate(c) : c \in {k \in Configs : ~CreateParseError(k)}}

Called(op, id, template, res, err, provider) ==
    [op |-> op, id |-> id, template |-> template, res |-> res, err |-> err,
     provider |-> provider]

ClientGet(id, res) ==
    /\ cl = Idle
    /\ cl' = LET r == GetIdentityProvider(id, res)
             IN  Called("get", id, ZeroTemplate, res, r.err, r.provider)
    /\ UNCHANGED <<rec, cfg, last, dv, uv, hd>>

ClientCreate(template, res) ==
    /\ cl = Idle
    /\ cl' = LET r == CreateIdentityProvider(template, res)
             IN  Called("create", "", template, res, r.err, r.provider)
    /\ UNCHANGED <<rec, cfg, last, dv, uv, hd>>

ClientUpdate(id, template, res) ==
    /\ cl = Idle
    /\ cl' = LET r == UpdateIdentityProvider(id, template, res)
             IN  Called("update", id, template, res, r.err, r.provider)
    /\ UNCHANGED <<rec, cfg, last, dv, uv, hd>>

ClientDelete(id, res) ==
    /\ cl = Idle
    /\ cl' = Called("delete", id, ZeroTemplate, res,
                    DeleteIdentityProvider(id, res), ZeroProvider)
    /\ UNCHANGED <<rec, cfg, last, dv, uv, hd>>

\* the caller has taken the result
ClientReturn ==
    /\ cl # Idle
    /\ cl' = Idle
    /\ UNCHANGED <<rec, cfg, last, dv, uv, hd>>

NextClient ==
    \/ \E id \in RemoteIDs, res \in ClientResponses : ClientGet(id, res)
    \/ \E t \in ClientTemplates, res \in ClientResponses : ClientCreate(t, res)
    \/ \E id \in RemoteIDs, t \in ClientTemplates, res \in ClientResponses :
          ClientUpdate(id, t, res)
    \/ \E id \in RemoteIDs, res \in ClientResponses : ClientDelete(id, res)
    \/ ClientReturn

SpecClient == Init /\ [][NextClient]_vars

\* what the claim expects of each operation
ExpectedStatus(op) == IF op = "create" THEN StatusCreated ELSE StatusOK
Attempted(op, id) ==
    CASE op = "get"    -> [text |-> "fetching identity provider with id", id |-> id]
      [] op = "create" -> [text |-> "creating new identity provider", id |-> ""]
      [] op = "update" -> [text |-> "updating identity provider with ID", id |-> id]
      [] OTHER         -> [text |-> "deleting identity provider with ID", id |-> id]
\* the body is JSON of the error shape {code, msg, error_id}
DecodesAsErrorShape(b) == b.json \in {"object", "null"} /\ b.msgKind # "number"

\* C5: an answer whose status is not the expected one gives, for every body,
\* an API error with the operation's expected status, the answer's HTTP
\* status as actual status, the attempted operation, and as message the
\* body's msg when the body decodes as the error shape, else the raw body.
C5_UnexpectedStatusGivesFaithfulAPIError ==
    (/\ cl.op # "none"
     /\ ~cl.res.transport /\ ~cl.res.readErr
     /\ cl.res.status # ExpectedStatus(cl.op))
        => /\ cl.err.kind = "api"
           /\ cl.err.expected = ExpectedStatus(cl.op)
           /\ cl.err.code = cl.res.status
           /\ cl.err.op = Attempted(cl.op, cl.id)
           /\ cl.err.message = IF DecodesAsErrorShape(cl.res.body)
                               THEN cl.res.body.msg ELSE cl.res.body.text

----------------------------------------------------------------------------
(* Field validators.  Strings are sequences of one-character strings. *)

LowerAlnumHyphen == {"a", "b", "c", "m", "o", "0", "1", "9", "-"}   \* [a-z0-9-]
RegexpAny(c) == c # "\n"                                           \* .
Digit(c) == c \in {"0", "1", "2", "3", "4", "5", "6", "7", "8", "9"}

\* domainPattern = ^[a-z0-9-]+(.[a-z0-9-]+)*$ as an automaton:
\*   "start"; "seg": inside a [a-z0-9-]+ run (accepting);
\*   "sep": the group's leading . has just been read
DomainStep(q, c) ==
    CASE q = "start" -> IF c \in LowerAlnumHyphen THEN {"seg"} ELSE {}
      [] q = "seg"   -> (IF c \in LowerAlnumHyphen THEN {"seg"} ELSE {}) \cup
                        (IF RegexpAny(c) THEN {"sep"} ELSE {})
      [] OTHER       -> IF c \in LowerAlnumHyphen THEN {"seg"} ELSE {}

RECURSIVE DomainRun(_, _, _)
DomainRun(qs, s, i) ==
    IF i > Len(s) THEN qs
    ELSE DomainRun(UNION {DomainStep(q, s[i]) : q \in qs}, s, i + 1)

\* domainPattern.MatchString(value)
domainPatternMatchString(s) == "seg" \in DomainRun({"start"}, s, 1)

\* the ValidateDiagFunc of an element of "domains"
ValidateDomainDiags(value) ==
    IF ~domainPatternMatchString(value)
    THEN <<[severity |-> "error", summary |-> "Value is not a valid domain",
            value |-> value]>>
    ELSE <<>>

DomainAlphabet == {"a", "0", "-", ".", "X"}
DomainStrings == UNION {[1..n -> DomainAlphabet] : n \in 0..MaxLen}

ValidateDomain ==
    /\ ~dv.done
    /\ dv' = [dv EXCEPT !.diags = ValidateDomainDiags(dv.value), !.done = TRUE]
    /\ UNCHANGED <<rec, cfg, last, cl, uv, hd>>

InitDomains ==
    /\ rec = EmptyRecord /\ cfg = NoCfg /\ last = NoOutcome /\ cl = Idle /\ uv = UvIdle
    /\ hd = HdIdle
    /\ dv \in {[value |-> s, diags |-> <<>>, done |-> FALSE] : s \in DomainStrings}

NextDomains == ValidateDomain

SpecDomains == InitDomains /\ [][NextDomains]_vars

\* the strings the claim calls valid: non-empty runs of lowercase letters,
\* digits and hyphens, separated by single literal dots
DottedStep(q, c) ==
    CASE q = "start" -> IF c \in LowerAlnumHyphen THEN {"seg"} ELSE {}
      [] q = "seg"   -> (IF c \in LowerAlnumHyphen THEN {"seg"} ELSE {}) \cup
                        (IF c = "." THEN {"sep"} ELSE {})
      [] OTHER       -> IF c \in LowerAlnumHyphen THEN {"seg"} ELSE {}

RECURSIVE DottedRun(_, _, _)
DottedRun(qs, s, i) ==
    IF i > Len(s) THEN qs
    ELSE DottedRun(UNION {DottedStep(q, s[i]) : q \in qs}, s, i + 1)

IsDottedSegments(s) == "seg" \in DottedRun({"start"}, s, 1)

\* C9: the domain validator returns no diagnostic for exactly the strings of
\* dot-separated lowercase/digit/hyphen segments, and exactly one error
\* diagnostic for every other string.
C9_DomainValidatorAcceptsExactlyDottedSegments ==
    dv.done =>
        IF IsDottedSegments(dv.value) THEN dv.diags = <<>>
        ELSE Len(dv.diags) = 1 /\ dv.diags[1].severity = "error"

----------------------------------------------------------------------------
(* Provider configuration: the ValidateDiagFunc of "url" *)

LowerLetters == <<"a", "b", "c", "d", "e", "f", "g", "h", "i", "j", "k", "l", "m", "n", "o", "p", "q", "r", "s", "t", "u", "v", "w", "x", "y", "z">>
UpperLetters == <<"A", "B", "C", "D", "E", "F", "G", "H", "I", "J", "K", "L", "M", "N", "O", "P", "Q", "R", "S", "T", "U", "V", "W", "X", "Y", "Z">>
IsLetter(c) == \E i \in 1..Len(LowerLetters) : c = LowerLetters[i] \/ c = UpperLetters[i]
ToLowerChar(c) ==
    IF \E i \in 1..Len(UpperLetters) : c = UpperLetters[i]
    THEN LowerLetters[CHOOSE i \in 1..Len(UpperLetters) : c = UpperLetters[i]]
    ELSE c
ToLower(s) == [i \in 1..Len(s) |-> ToLowerChar(s[i])]

HasPrefix(s, pre) == Len(s) >= Len(pre) /\ SubSeq(s, 1, Len(pre)) = pre
Tail2(s, from) == SubSeq(s, from, Len(s))
\* strings.Index / strings.LastIndex of one character; 0 when it is absent
Index(s, c) ==
    IF \E i \in 1..Len(s) : s[i] = c
    THEN CHOOSE i \in 1..Len(s) : s[i] = c /\ \A j \in 1..(i - 1) : s[j] # c
    ELSE 0
LastIndex(s, c) ==
    IF \E i \in 1..Len(s) : s[i] = c
    THEN CHOOSE i \in 1..Len(s) : s[i] = c /\ \A j \in (i + 1)..Len(s) : s[j] # c
    ELSE 0

\* net/url getScheme: the scheme ends at the first ':'; a leading digit,
\* '+', '-' or '.', or any other character, means there is no scheme
RECURSIVE getScheme(_, _)
getScheme(raw, i) ==
    IF i > Len(raw) THEN [err |-> FALSE, scheme |-> <<>>, rest |-> raw]
    ELSE IF IsLetter(raw[i]) THEN getScheme(raw, i + 1)
    ELSE IF Digit(raw[i]) \/ raw[i] \in {"+", "-", "."}
         THEN IF i = 1 THEN [err |-> FALSE, scheme |-> <<>>, rest |-> raw]
              ELSE getScheme(raw, i + 1)
    ELSE IF raw[i] = ":"
         THEN IF i = 1 THEN [err |-> TRUE, scheme |-> <<>>, rest |-> <<>>]
              ELSE [err |-> FALSE, scheme |-> SubSeq(raw, 1, i - 1),
                    rest |-> Tail2(raw, i + 1)]
    ELSE [err |-> FALSE, scheme |-> <<>>, rest |-> raw]

\* net/url validOptionalPort on the part of the host from its last ':'
ValidHostPort(host) ==
    LET i == LastIndex(host, ":")
    IN  i = 0 \/ \A j \in (i + 1)..Len(host) : Digit(host[j])

ParseFailed == [err |-> TRUE, scheme |-> <<>>, host |-> <<>>]

\* url.ParseRequestURI(rawURL) for values without '?', '@', '[', '%' or
\* control characters: nil and an error, or the URL's Scheme and Host
ParseRequestURI(raw) ==
    IF raw = <<>> THEN ParseFailed
    ELSE LET g == getScheme(raw, 1)
             scheme == ToLower(g.scheme)
             rest == g.rest
             after == Tail2(rest, 3)
             slash == Index(after, "/")
             authority == IF slash > 0 THEN SubSeq(after, 1, slash - 1) ELSE after
         IN  IF g.err THEN ParseFailed
             ELSE IF ~HasPrefix(rest, <<"/">>)
                  THEN IF scheme # <<>>
                       THEN [err |-> FALSE, scheme |-> scheme, host |-> <<>>]
                       ELSE ParseFailed
             ELSE IF scheme # <<>> /\ HasPrefix(rest, <<"/", "/">>)
                  THEN IF ValidHostPort(authority)
                       THEN [err |-> FALSE, scheme |-> scheme, host |-> authority]
                       ELSE ParseFailed
             ELSE [err |-> FALSE, scheme |-> scheme, host |-> <<>>]

Http == <<"h", "t", "t", "p">>
Https == <<"h", "t", "t", "p", "s">>
Localhost == <<"l", "o", "c", "a", "l", "h", "o", "s", "t">>

\* (.[0-9]{1,3}){n}
RECURSIVE Octets(_, _)
Octets(s, n) ==
    IF n = 0 THEN s = <<>>
    ELSE \E k \in 1..3 :
            /\ Len(s) >= k + 1
            /\ RegexpAny(s[1])
            /\ \A j \in 2..(k + 1) : Digit(s[j])
            /\ Octets(Tail2(s, k + 2), n - 1)

\* regexp.MatchString("^(localhost|127(.[0-9]{1,3}){3})(:[0-9]+)?$", host)
islocalhost(host) ==
    \E k \in 0..Len(host) :
        LET name == SubSeq(host, 1, k)
            port == Tail2(host, k + 1)
        IN  /\ \/ name = Localhost
               \/ HasPrefix(name, <<"1", "2", "7">>) /\ Octets(Tail2(name, 4), 3)
            /\ \/ port = <<>>
               \/ /\ Len(port) >= 2
                  /\ port[1] = ":"
                  /\ \A j \in 2..Len(port) : Digit(port[j])

Diag(severity, summary) == [severity |-> severity, summary |-> summary]

\* the validator: its diagnostics, or a crash (parsedURL is nil after a
\* failed parse, and parsedURL.Scheme is read all the same)
ValidateURL(rawURL) ==
    IF rawURL = <<>>
    THEN [crashed |-> FALSE, diags |-> <<Diag("error", "GoTrue URL is empty")>>]
    ELSE LET parsedURL == ParseRequestURI(rawURL)
         IN  IF parsedURL.err
             THEN [crashed |-> TRUE, diags |-> <<>>]
             ELSE [crashed |-> FALSE,
                   diags |->
                      (IF parsedURL.scheme # Http /\ parsedURL.scheme # Https
                       THEN <<Diag("error", "GoTrue URL is not HTTP(S)")>>
                       ELSE <<>>)
                      \o
                      (IF ~islocalhost(parsedURL.host) /\ parsedURL.scheme = Http
                       THEN <<Diag("warning", "GoTrue URL does not use HTTPS")>>
                       ELSE <<>>)]

\* the values handed to the validator: scheme, separator, host, path
SchemeTexts == {<<>>, Http, Https, <<"f", "t", "p">>, <<"H", "T", "T", "P">>}
SeparatorTexts == {<<>>, <<":">>, <<":", "/", "/">>}
HostTexts ==
    {<<>>, Localhost, Localhost \o <<":", "9", "9", "9", "9">>,
     <<"1", "2", "7", ".", "0", ".", "0", ".", "1">>,
     <<"1", "2", "7", "x", "0", "x", "0", "x", "1">>,
     <<"e", "x", ".", "c", "o", "m">>,
     <<"e", "x", ".", "c", "o", "m", ":", "x">>}
PathTexts == {<<>>, <<"/", "p">>}
RawURLs ==
    {sc \o sep \o h \o pa :
        sc \in SchemeTexts, sep \in SeparatorTexts, h \in HostTexts, pa \in PathTexts}

ValidateURLStep ==
    /\ ~uv.done
    /\ uv' = LET out == ValidateURL(uv.raw)
             IN  [raw |-> uv.raw, diags |-> out.diags, crashed |-> out.crashed,
                  done |-> TRUE]
    /\ UNCHANGED <<rec, cfg, last, cl, dv, hd>>

InitURL ==
    /\ rec = EmptyRecord /\ cfg = NoCfg /\ last = NoOutcome /\ cl = Idle /\ dv = DvIdle
    /\ hd = HdIdle
    /\ uv \in {[raw |-> r, diags |-> <<>>, crashed |-> FALSE, done |-> FALSE] :
                 r \in RawURLs}

NextURL == ValidateURLStep

SpecURL == InitURL /\ [][NextURL]_vars

HasDiag(severity) == \E i \in 1..Len(uv.diags) : uv.diags[i].severity = severity

\* (.[0-9]{1,3}){n} with a literal dot
RECURSIVE DottedOctets(_, _)
DottedOctets(s, n) ==
    IF n = 0 THEN s = <<>>
    ELSE \E k \in 1..3 :
            /\ Len(s) >= k + 1
            /\ s[1] = "."
            /\ \A j \in 2..(k + 1) : Digit(s[j])
            /\ DottedOctets(Tail2(s, k + 2), n - 1)

\* a loopback host: localhost or 127.x.y.z, with an optional port
IsLoopbackHost(host) ==
    LET i == LastIndex(host, ":")
        name == IF i > 0 THEN SubSeq(host, 1, i - 1) ELSE host
    IN  \/ name = Localhost
        \/ HasPrefix(name, <<"1", "2", "7">>) /\ DottedOctets(Tail2(name, 4), 3)

\* C10: the url validator returns diagnostics for every value and never
\* crashes: an error for the empty value, an error for a value that does not
\* parse, an error for a scheme other than http and https, and a warning but
\* no error for an http address of a host that is not loopback.
C10_URLValidatorAlwaysReturnsDiagnostics ==
    uv.done =>
        LET parsed == ParseRequestURI(uv.raw)
        IN  /\ ~uv.crashed
            /\ (uv.raw = <<>> => HasDiag("error"))
            /\ (parsed.err => HasDiag("error"))
            /\ (~parsed.err /\ parsed.scheme \notin {Http, Https} => HasDiag("error"))
            /\ (~parsed.err /\ parsed.scheme = Http /\ ~IsLoopbackHost(parsed.host)
                    => HasDiag("warning") /\ ~HasDiag("error"))

----------------------------------------------------------------------------
(* The client's default headers, with operations running concurrently *)

\* the header sets providerConfigure can hand to WithHeaders
CallerHeaders ==
    {[EmptyHeader EXCEPT !["Authorization"] = a, !["Content-Type"] = ct,
                         !["User-Agent"] = <<"terraform-provider-gotrue">>] :
        a \in {<<>>, <<"Bearer service-key">>}, ct \in {<<>>, <<"text/plain">>}}

\* adminclient.New(WithHeaders(headers)): c.Headers = headers.Clone()
NewWithHeaders ==
    /\ ~hd.built
    /\ LET ref == HeaderClone(CallerRef, ClientCell)
       IN  hd' = [hd EXCEPT !.built = TRUE,
                            !.headers = ref,
                            !.heap = [@ EXCEPT ![ClientCell] = hd.heap[CallerRef]],
                            !.atConstruction = hd.heap[CallerRef]]
    /\ UNCHANGED <<rec, cfg, last, cl, dv, uv>>

\* adminclient.New() without WithHeaders: c.Headers = make(http.Header)
NewWithoutHeaders ==
    /\ ~hd.built
    /\ hd' = [hd EXCEPT !.built = TRUE,
                        !.headers = ClientCell,
                        !.heap = [@ EXCEPT ![ClientCell] = EmptyHeader],
                        !.atConstruction = EmptyHeader]
    /\ UNCHANGED <<rec, cfg, last, cl, dv, uv>>

\* the caller goes on using its own header set
CallerAdds(name) ==
    /\ Len(hd.heap[CallerRef][name]) < MaxValues
    /\ hd' = [hd EXCEPT !.heap[CallerRef] = HeaderAdd(@, name, "set by caller")]
    /\ UNCHANGED <<rec, cfg, last, cl, dv, uv>>

\* an operation starts: req.Header = c.Headers.Clone()
StartRequest(p, op) ==
    /\ hd.built
    /\ hd.pc[p] = "idle"
    /\ LET ref == HeaderClone(hd.headers, RequestCell(p))
       IN  hd' = [hd EXCEPT !.op[p] = op,
                            !.reqHeader[p] = ref,
                            !.heap = [@ EXCEPT ![RequestCell(p)] = hd.heap[hd.headers]],
                            !.pc[p] = IF op \in {"create", "update"}
                                      THEN "cloned" ELSE "send"]
    /\ UNCHANGED <<rec, cfg, last, cl, dv, uv>>

\* create / update: req.Header.Add("Content-Type", "application/json")
AddContentType(p) ==
    /\ hd.pc[p] = "cloned"
    /\ hd' = [hd EXCEPT !.heap[hd.reqHeader[p]] =
                            HeaderAdd(@, "Content-Type", "application/json"),
                        !.pc[p] = "send"]
    /\ UNCHANGED <<rec, cfg, last, cl, dv, uv>>

\* c.HTTPClient.Do(req): the transport may add headers to the request it got
Do(p, adds) ==
    /\ hd.pc[p] = "send"
    /\ hd' = [hd EXCEPT !.heap[hd.reqHeader[p]] =
                            IF adds /\ Len(@["Authorization"]) < MaxValues
                            THEN HeaderAdd(@, "Authorization", "set by transport")
                            ELSE @,
                        !.pc[p] = "sent"]
    /\ UNCHANGED <<rec, cfg, last, cl, dv, uv>>

\* the operation returns; its request is dropped
Finish(p) ==
    /\ hd.pc[p] = "sent"
    /\ hd' = [hd EXCEPT !.pc[p] = "idle", !.op[p] = "none", !.reqHeader[p] = 0,
                        !.heap[RequestCell(p)] = EmptyHeader]
    /\ UNCHANGED <<rec, cfg, last, cl, dv, uv>>

InitHeaders ==
    /\ rec = EmptyRecord /\ cfg = NoCfg /\ last = NoOutcome /\ cl = Idle
    /\ dv = DvIdle /\ uv = UvIdle
    /\ hd \in {[HdIdle EXCEPT !.heap[CallerRef] = h] : h \in CallerHeaders}

NextHeaders ==
    \/ NewWithHeaders
    \/ NewWithoutHeaders
    \/ \E name \in {"Authorization", "Content-Type"} : CallerAdds(name)
    \/ \E p \in Procs, op \in {"get", "create", "update", "delete"} : StartRequest(p, op)
    \/ \E p \in Procs : AddContentType(p)
    \/ \E p \in Procs, adds \in BOOLEAN : Do(p, adds)
    \/ \E p \in Procs : Finish(p)

SpecHeaders == InitHeaders /\ [][NextHeaders]_vars

InFlight(p) == hd.pc[p] # "idle"

\* C11: after construction the client's default header set is a map of its
\* own (not the caller's), every request in flight has a header map of its
\* own, and under any interleaving of Get, Create, Update and Delete - with
\* the Content-Type additions of the write operations - the client's set
\* equals the set it held at construction.
C11_DefaultHeadersReadOnly ==
    hd.built =>
        /\ hd.headers # CallerRef
        /\ hd.heap[hd.headers] = hd.atConstruction
        /\ \A p \in Procs : InFlight(p) =>
              /\ hd.reqHeader[p] # hd.headers
              /\ hd.reqHeader[p] # CallerRef
              /\ \A q \in Procs : (q # p /\ InFlight(q)) => hd.reqHeader[q] # hd.reqHeader[p]

\* two write operations in flight at once, both with their Content-Type
\* added, one request touched by the transport, and the caller's own set
\* changed since construction - the client's set still has no JSON type
C11_Witness ==
    /\ hd.built
    /\ hd.op[1] = "create" /\ hd.pc[1] = "sent"
    /\ hd.op[2] = "update" /\ hd.pc[2] = "send"
    /\ hd.heap[hd.reqHeader[1]]["Content-Type"] = <<"application/json">>
    /\ hd.heap[hd.reqHeader[1]]["Authorization"]
            = <<"Bearer service-key", "set by transport">>
    /\ hd.heap[hd.reqHeader[2]]["Content-Type"] = <<"application/json">>
    /\ hd.heap[CallerRef] # hd.atConstruction
    /\ hd.heap[hd.headers]["Content-Type"] = <<>>
    /\ hd.heap[hd.headers]["Authorization"] = <<"Bearer service-key">>

====
